---- MODULE Spec2Model ----
(***************************************************************************)
(* Door access system: the local SQLite store (database.py), the Firebase  *)
(* sync engine (firebase_sync.py) and the access controller (main.py).     *)
(*                                                                         *)
(* The specifications share the variables:                                 *)
(*   SpecStore  the Database API under arbitrary call sequences, with a    *)
(*              failure injected at any point of a call's transaction      *)
(*   Spec       the store written by the application while the sync        *)
(*              engine's background loop and sync_now run against it       *)
(*   SpecCtl    the controller's main loop, its button callbacks and the   *)
(*              relay timer (FairCtl adds the scheduling of the loop)      *)
(*   SpecLoop   the background loop alone over a store with pending work,  *)
(*              SpecFlush the same with sync_now added                     *)
(*   SpecFace   recognize and capture_and_recognize over bounded frames    *)
(*   SpecUsers  UserManager's enrolment, re-enrolment and deletion against *)
(*              the fingerprint sensor's template table                    *)
(***************************************************************************)
EXTENDS Integers, Sequences, FiniteSets, TLC

VARIABLES
    db,         \* the committed content of the SQLite file
    lastOp,     \* the last Database call: its name, arguments and failure
    remote,     \* Firebase: users and access_logs documents, enrollments
    sync,       \* FirebaseSync fields: _retry_delay, _sync_stats, _running
    task,       \* per sync executor: position in _perform_sync, snapshot
    addCalls,   \* per remote enrollment: users the pull has added for it
    ctl,        \* DoorAccessSystem fields and the main loop's position
    gpio,       \* GPIOController fields: _relay_active, pending timers
    cb          \* the button callback threads' positions

vars == <<db, lastOp, remote, sync, task, addCalls, ctl, gpio, cb>>

(***************************************************************************)
(* Bounds of the model                                                     *)
(***************************************************************************)
MaxUsers == 2
MaxLogs == 1
MaxQueueSeq == 3

\* Python's None / SQL NULL in an integer column (ids start at 1)
NULL == 0

Tables == {"users", "access_logs"}
UserIds == 1..MaxUsers
LogIds == 1..MaxLogs
Encodings == {1}
SensorIds == {0}
\* where a call can fail: not at all, after its first statement (the entity
\* write), or after its second statement and before conn.commit()
FailPoints == {"none", "after_entity", "after_queue"}

(***************************************************************************)
(* database.py: tables and statements                                      *)
(***************************************************************************)
\* CREATE TABLE users / access_logs / sync_queue, all empty; queue_seq is
\* sqlite_sequence's row for sync_queue (AUTOINCREMENT never reuses an id)
EmptyDb ==
    [users |-> <<>>, access_logs |-> <<>>, sync_queue |-> <<>>, queue_seq |-> 0]

UserRow(name, face_encoding, fingerprint_id) ==
    [name |-> name, face_encoding |-> face_encoding,
     fingerprint_id |-> fingerprint_id, synced |-> 0, active |-> 1]

LogRow(user_id, user_name, method, direction, status, image_path, confidence) ==
    [user_id |-> user_id, user_name |-> user_name, method |-> method,
     direction |-> direction, status |-> status, image_path |-> image_path,
     confidence |-> confidence, synced |-> 0]

\* INSERT INTO sync_queue (table_name, record_id, action, created_at)
InsertQueue(d, table_name, record_id, action) ==
    [d EXCEPT !.sync_queue = Append(@, [id |-> d.queue_seq + 1,
                                        table_name |-> table_name,
                                        record_id |-> record_id,
                                        action |-> action,
                                        attempts |-> 0]),
              !.queue_seq = @ + 1]

\* UPDATE users SET ... WHERE id=?  (no row matches an unknown id)
UpdateUser(d, user_id, field, value) ==
    IF user_id \in DOMAIN d.users
    THEN [d EXCEPT !.users[user_id] = [[@ EXCEPT ![field] = value]
                                           EXCEPT !.synced = 0]]
    ELSE d

\* A mutant of DeleteQueue: the DELETE without its table_name condition
DeleteQueueAnyTable(d, table_name, record_id) ==
    LET Keep(q) == q.record_id # record_id
    IN [d EXCEPT !.sync_queue = SelectSeq(@, Keep)]

\* A mutant of DeleteQueue: DELETE FROM sync_queue WHERE table_name=?
DeleteQueueWholeTable(d, table_name, record_id) ==
    LET Keep(q) == q.table_name # table_name
    IN [d EXCEPT !.sync_queue = SelectSeq(@, Keep)]

\* DELETE FROM sync_queue WHERE table_name=? AND record_id=?
DeleteQueue(d, table_name, record_id) ==
    LET Keep(q) == ~(q.table_name = table_name /\ q.record_id = record_id)
    IN [d EXCEPT !.sync_queue = SelectSeq(@, Keep)]

\* A mutant of SetSynced: INSERT OR REPLACE of the row with synced=1, which
\* gives the columns it does not name their defaults
SetSyncedReplacesRow(d, table_name, record_id) ==
    IF table_name = "users"
    THEN IF record_id \in DOMAIN d.users
         THEN [d EXCEPT !.users[record_id].synced = 1] ELSE d
    ELSE IF record_id \in DOMAIN d.access_logs
         THEN [d EXCEPT !.access_logs[record_id] =
                  [LogRow(NULL, "Unknown", @.method, "in", @.status, NULL, 0)
                      EXCEPT !.synced = 1]]
         ELSE d

\* UPDATE {table_name} SET synced=1 WHERE id=?
SetSynced(d, table_name, record_id) ==
    IF table_name = "users"
    THEN IF record_id \in DOMAIN d.users
         THEN [d EXCEPT !.users[record_id].synced = 1] ELSE d
    ELSE IF record_id \in DOMAIN d.access_logs
         THEN [d EXCEPT !.access_logs[record_id].synced = 1] ELSE d

\* A mutant of Commit: a connection in autocommit mode, where every
\* statement is durable as soon as it has run.
CommitAutocommit(d, t1, t2, fail) ==
    CASE fail = "none" -> t2
      [] fail = "after_entity" -> t1
      [] OTHER -> t2

\* A mutant of Commit: conn.commit() moved up, right after the second
\* statement, so that a failure after it leaves both writes behind.
CommitEarly(d, t1, t2, fail) ==
    IF fail = "after_entity" THEN d ELSE t2

\* One call's transaction on its own connection: d is the committed state,
\* t1 the connection's view after the first statement, t2 after the second.
\* sqlite3 opens the transaction implicitly at the first INSERT/UPDATE;
\* conn.commit() publishes t2, and an exception before it reaches
\* `finally: conn.close()`, which discards what was not committed.
Commit(d, t1, t2, fail) ==
    IF fail = "none" THEN t2 ELSE d

(***************************************************************************)
(* database.py: the Database methods, each the committed state it leaves   *)
(***************************************************************************)
add_user(d, name, face_encoding, fingerprint_id, fail) ==
    LET t1 == [d EXCEPT !.users =
                   Append(@, UserRow(name, face_encoding, fingerprint_id))]
        user_id == Len(t1.users)                    \* cursor.lastrowid
        t2 == InsertQueue(t1, "users", user_id, "create")
    IN Commit(d, t1, t2, fail)

update_user_face(d, user_id, face_encoding, fail) ==
    LET t1 == UpdateUser(d, user_id, "face_encoding", face_encoding)
        t2 == InsertQueue(t1, "users", user_id, "update")
    IN Commit(d, t1, t2, fail)

update_user_fingerprint(d, user_id, fingerprint_id, fail) ==
    LET t1 == UpdateUser(d, user_id, "fingerprint_id", fingerprint_id)
        t2 == InsertQueue(t1, "users", user_id, "update")
    IN Commit(d, t1, t2, fail)

delete_user(d, user_id, fail) ==
    LET t1 == UpdateUser(d, user_id, "active", 0)
        t2 == InsertQueue(t1, "users", user_id, "delete")
    IN Commit(d, t1, t2, fail)

\* FOREIGN KEY (user_id) REFERENCES users(id) with PRAGMA foreign_keys=ON:
\* the INSERT of a row naming an unknown user raises IntegrityError
ForeignKeyOk(d, user_id) == user_id = NULL \/ user_id \in DOMAIN d.users

log_access(d, row, fail) ==
    LET t1 == [d EXCEPT !.access_logs = Append(@, row)]
        log_id == Len(t1.access_logs)               \* cursor.lastrowid
        t2 == InsertQueue(t1, "access_logs", log_id, "create")
    IN IF ForeignKeyOk(d, row.user_id) THEN Commit(d, t1, t2, fail) ELSE d

mark_synced(d, table_name, record_id, fail) ==
    LET t1 == SetSynced(d, table_name, record_id)
        t2 == DeleteQueue(t1, table_name, record_id)
    IN Commit(d, t1, t2, fail)

\* A mutant of get_user: SELECT * FROM users WHERE id=?
get_user_any_state(d, user_id) ==
    IF user_id \in DOMAIN d.users THEN user_id ELSE NULL

\* SELECT * FROM users WHERE id=? AND active=1  (NULL when no row)
get_user(d, user_id) ==
    IF user_id \in DOMAIN d.users /\ d.users[user_id].active = 1
    THEN user_id ELSE NULL

\* SELECT * FROM users WHERE active=1 : the ids, in rowid order
get_all_users(d) ==
    LET Ids == [i \in 1..Len(d.users) |-> i]
        Active(i) == d.users[i].active = 1
    IN SelectSeq(Ids, Active)

\* A mutant of get_unsynced_users: SELECT * FROM users, whatever the flag
get_users_any_flag(d) == [i \in 1..Len(d.users) |-> i]

\* SELECT * FROM users WHERE synced=0 : the ids, in rowid order
get_unsynced_users(d) ==
    LET Ids == [i \in 1..Len(d.users) |-> i]
        Unsynced(i) == d.users[i].synced = 0
    IN SelectSeq(Ids, Unsynced)

\* SELECT * FROM access_logs WHERE synced=0 ORDER BY timestamp ASC
get_unsynced_logs(d) ==
    LET Ids == [i \in 1..Len(d.access_logs) |-> i]
        Unsynced(i) == d.access_logs[i].synced = 0
    IN SelectSeq(Ids, Unsynced)

\* the sync_queue rows of one entity
QueueRows(d, table_name, record_id) ==
    {i \in 1..Len(d.sync_queue) :
        /\ d.sync_queue[i].table_name = table_name
        /\ d.sync_queue[i].record_id = record_id}

(***************************************************************************)
(* The Database API called directly, in any order, with any arguments      *)
(***************************************************************************)
CanEnqueue == db.queue_seq < MaxQueueSeq

Op(op, table_name, record_id, fail) ==
    [op |-> op, table_name |-> table_name, record_id |-> record_id,
     failed |-> (fail # "none")]

NoOp == Op("init", "users", NULL, "none")

\* the rows log_access is given by its callers
LogInputs ==
    {LogRow(NULL, "Unknown", "biometric", "in", "denied", NULL, 0),
     LogRow(1, "local", "face", "in", "granted", NULL, 70)}

AddUser(name, face_encoding, fingerprint_id, fail) ==
    /\ CanEnqueue
    /\ Len(db.users) < MaxUsers
    /\ db' = add_user(db, name, face_encoding, fingerprint_id, fail)

UpdateUserFace(user_id, face_encoding, fail) ==
    /\ CanEnqueue
    /\ db' = update_user_face(db, user_id, face_encoding, fail)

UpdateUserFingerprint(user_id, fingerprint_id, fail) ==
    /\ CanEnqueue
    /\ db' = update_user_fingerprint(db, user_id, fingerprint_id, fail)

DeleteUser(user_id, fail) ==
    /\ CanEnqueue
    /\ db' = delete_user(db, user_id, fail)

LogAccess(row, fail) ==
    /\ CanEnqueue
    /\ Len(db.access_logs) < MaxLogs
    /\ db' = log_access(db, row, fail)

MarkSynced(table_name, record_id, fail) ==
    /\ db' = mark_synced(db, table_name, record_id, fail)

\* lastOp records a direct call of the API: every step of SpecStore is one
\* call and sets it
Called(op, table_name, record_id, fail) ==
    lastOp' = Op(op, table_name, record_id, fail)

StoreCall ==
    \/ \E face \in {NULL} \cup Encodings, fail \in FailPoints :
          /\ AddUser("local", face, -1, fail)
          /\ Called("add_user", "users", Len(db.users) + 1, fail)
    \/ \E u \in UserIds, face \in Encodings, fail \in FailPoints :
          /\ UpdateUserFace(u, face, fail)
          /\ Called("update_user_face", "users", u, fail)
    \/ \E u \in UserIds, fp \in SensorIds, fail \in FailPoints :
          /\ UpdateUserFingerprint(u, fp, fail)
          /\ Called("update_user_fingerprint", "users", u, fail)
    \/ \E u \in UserIds, fail \in FailPoints :
          /\ DeleteUser(u, fail)
          /\ Called("delete_user", "users", u, fail)
    \/ \E row \in LogInputs, fail \in FailPoints :
          /\ LogAccess(row, fail)
          /\ Called("log_access", "access_logs", Len(db.access_logs) + 1, fail)

InitStore ==
    /\ db = EmptyDb
    /\ lastOp = NoOp
    /\ remote = 0 /\ sync = 0 /\ task = 0 /\ addCalls = 0
    /\ ctl = 0 /\ gpio = 0 /\ cb = 0

NextStore ==
    \/ StoreCall /\ UNCHANGED <<remote, sync, task, addCalls, ctl, gpio, cb>>
    \/ \E t \in Tables, id \in UserIds \cup LogIds, fail \in FailPoints :
          /\ MarkSynced(t, id, fail)
          /\ Called("mark_synced", t, id, fail)
          /\ UNCHANGED <<remote, sync, task, addCalls, ctl, gpio, cb>>

SpecStore == InitStore /\ [][NextStore]_vars

(***************************************************************************)
(* firebase_sync.py: the sync engine                                       *)
(***************************************************************************)
\* the configured ceiling of the retry delay (config "max_retry_delay")
max_retry_delay == 10
\* the number of background cycles whose retry delay the model keeps
MaxObserved == 3
\* the failures injected into the engine running alone
MaxLoopErrors == 2
\* the model stops injecting remote failures after this many counted errors
MaxErrors == 1
\* self._retry_delay = 5, in __init__ and after a successful cycle
InitialRetryDelay == 5

RemoteIds == {"r1"}
\* "bg" is the thread running _sync_loop, "now" the caller of sync_now
Executors == {"bg", "now"}

Min(a, b) == IF a <= b THEN a ELSE b

\* user_data, as _sync_users builds it from a row of get_unsynced_users
UserDoc(row) ==
    [name |-> row.name, fingerprint_id |-> row.fingerprint_id,
     active |-> (row.active = 1), face_encoding |-> row.face_encoding]

\* the rows get_unsynced_users returned, as (id, document) pairs
UserSnapshot(d) ==
    LET ids == get_unsynced_users(d)
    IN [i \in 1..Len(ids) |-> [id |-> ids[i], doc |-> UserDoc(d.users[ids[i]])]]

\* remote_enrollments entries with pending = True, as ref.get() returned them
PendingEnrollments(r) ==
    LET all == <<"r1">>
        Pending(rid) == r.enrollments[rid].pending
    IN SelectSeq(all, Pending)

\* `cycle` and `delay_before` record, for the executor's current or last
\* cycle, how it went and the retry delay it started with
\* `errors_before` is the error counter at the start of that cycle,
\* `all_synced` whether every row was marked synced then, and `result` what
\* sync_now returned
IdleTask ==
    [pc |-> "idle", users |-> <<>>, logs |-> <<>>, pull |-> <<>>,
     cycle |-> "none", delay_before |-> InitialRetryDelay,
     errors_before |-> 0, all_synced |-> FALSE, result |-> "none"]

\* every users and access_logs row has synced=1
AllSynced(d) ==
    /\ \A id \in DOMAIN d.users : d.users[id].synced = 1
    /\ \A id \in DOMAIN d.access_logs : d.access_logs[id].synced = 1

\* a loop that is over with the end of a cycle
ResumeEndsLoop(e) == IF e = "bg" THEN "stopped" ELSE "done"

\* where an executor goes when its cycle is over: the loop to its sleep and
\* the next `while self._running` test, sync_now back to its caller
Resume(e) == IF e = "bg" THEN "idle" ELSE "done"

\* a remote operation of the cycle failed
Dirty(t) == [t EXCEPT !.cycle = "dirty"]

\* the cycle ended, by _perform_sync returning or by an exception
Ended(t, how) ==
    [t EXCEPT !.cycle = IF t.cycle = "clean" THEN how \o "_clean"
                        ELSE how \o "_dirty",
              !.result = IF how = "returned" THEN "True" ELSE "False"]

\* a loop that never resets its retry delay
EndCycleNoReset(sy, e, failed) ==
    IF e = "bg" /\ failed
    THEN [sy EXCEPT !.stats.errors = @ + 1,
                    !.retry_delay = IF @ * 2 <= sy.max_retry_delay THEN @ * 2
                                    ELSE sy.max_retry_delay]
    ELSE sy

\* the retry delay after a failed cycle
Backoff(delay, ceiling) == Min(delay * 2, ceiling)

\* the retry delay the background loop holds after each of its first
\* cycles, with how the cycle ended (kept for sync.observe cycles)
Observe(sy, e, how) ==
    IF e = "bg" /\ Len(sy.observed) < sy.observe
    THEN [sy EXCEPT !.observed =
             Append(@, [cycle |-> how, delay |-> sy.retry_delay])]
    ELSE sy

\* a handler that logs the failure without counting it
CountNothing(sy) == sy

\* self._sync_stats["errors"] += 1
CountError(sy) == [sy EXCEPT !.stats.errors = @ + 1]

\* what ends a cycle of executor e: the loop resets its delay (or backs
\* off) and sleeps; sync_now returns and touches no loop state
EndCycle(sy, e, failed) ==
    IF e = "bg"
    THEN IF failed
         THEN [CountError(sy) EXCEPT !.retry_delay = Backoff(@, sy.max_retry_delay)]
         ELSE [sy EXCEPT !.retry_delay = InitialRetryDelay]
    ELSE sy

\* what the model records about the start of a cycle, where it observes
\* the loop at all
Seen(value, default) == IF sync.observe > 0 THEN value ELSE default

\* _sync_loop's `while self._running` / sync_now's entry, _check_internet,
\* and the head of _perform_sync: _sync_users' get_unsynced_users()
SyncStart(e, outcome) ==
    /\ task[e].pc = "idle"
    /\ IF e = "bg" THEN sync.running ELSE ~sync.running
    /\ outcome = "raise" => sync.stats.errors < sync.max_errors
    /\ CASE outcome = "offline" ->
              /\ sync' = Observe(
                             IF e = "bg"
                             THEN [sync EXCEPT !.retry_delay =
                                      Backoff(@, sync.max_retry_delay)]
                             ELSE sync, e, "offline")
              /\ task' = [task EXCEPT ![e].pc = Resume(e),
                                      ![e].cycle = "offline",
                                      ![e].all_synced = FALSE,
                                      ![e].result = "False",
                                      ![e].delay_before = sync.retry_delay,
                                      ![e].errors_before = Seen(sync.stats.errors, 0)]
         [] outcome = "raise" ->
              /\ sync' = Observe(EndCycle(sync, e, TRUE), e, "raised")
              /\ task' = [task EXCEPT ![e].pc = Resume(e),
                                      ![e].cycle = "raised",
                                      ![e].all_synced = FALSE,
                                      ![e].result = "False",
                                      ![e].delay_before = sync.retry_delay,
                                      ![e].errors_before = Seen(sync.stats.errors, 0)]
         [] OTHER ->
              /\ sync' = sync
              /\ task' = [task EXCEPT ![e].pc = "users",
                                      ![e].users = UserSnapshot(db),
                                      ![e].cycle = "clean",
                                      ![e].all_synced = Seen(AllSynced(db), FALSE),
                                      ![e].delay_before = sync.retry_delay,
                                      ![e].errors_before = Seen(sync.stats.errors, 0)]
    /\ UNCHANGED <<db, lastOp, remote, addCalls, ctl, gpio, cb>>

\* one iteration of _sync_users' loop: ref.child(id).set(user_data),
\* mark_synced("users", id), _sync_stats["users"] += 1; any exception is
\* caught per user and counted
PushUser(e, outcome) ==
    /\ task[e].pc = "users" /\ task[e].users # <<>>
    /\ outcome # "ok" => sync.stats.errors < sync.max_errors
    /\ LET item == Head(task[e].users)
       IN /\ remote' = IF outcome = "remote_fail" THEN remote
                       ELSE [remote EXCEPT !.users = (item.id :> item.doc) @@ @]
          /\ db' = IF outcome = "ok"
                   THEN mark_synced(db, "users", item.id, "none") ELSE db
          /\ sync' = IF outcome = "ok"
                     THEN [sync EXCEPT !.stats.users = @ + 1]
                     ELSE CountError(sync)
    /\ task' = [task EXCEPT ![e] =
                   [(IF outcome = "remote_fail" THEN Dirty(@) ELSE @)
                       EXCEPT !.users = Tail(@)]]
    /\ UNCHANGED <<lastOp, addCalls, ctl, gpio, cb>>

\* _sync_users is done; _sync_access_logs starts with get_unsynced_logs()
BeginLogs(e, outcome) ==
    /\ task[e].pc = "users" /\ task[e].users = <<>>
    /\ outcome = "raise" => sync.stats.errors < sync.max_errors
    /\ IF outcome = "raise"
       THEN /\ sync' = Observe(EndCycle(sync, e, TRUE), e, "raised")
            /\ task' = [task EXCEPT ![e] =
                           [Ended(@, "raised") EXCEPT
                               !.pc = Resume(e),
                               !.users = <<>>, !.logs = <<>>, !.pull = <<>>]]
       ELSE /\ sync' = sync
            /\ task' = [task EXCEPT ![e].pc = "logs",
                                    ![e].logs = get_unsynced_logs(db)]
    /\ UNCHANGED <<db, lastOp, remote, addCalls, ctl, gpio, cb>>

\* the access_logs document _sync_access_logs builds from a row
LogDoc(row) ==
    [user_id |-> row.user_id, user_name |-> row.user_name,
     method |-> row.method, direction |-> row.direction,
     status |-> row.status, confidence |-> row.confidence]

\* one iteration of _sync_access_logs' loop
PushLog(e, outcome) ==
    /\ task[e].pc = "logs" /\ task[e].logs # <<>>
    /\ outcome # "ok" => sync.stats.errors < sync.max_errors
    /\ LET id == Head(task[e].logs)
       IN /\ remote' = IF outcome = "remote_fail" THEN remote
                       ELSE [remote EXCEPT !.access_logs =
                                (id :> LogDoc(db.access_logs[id])) @@ @]
          /\ db' = IF outcome = "ok"
                   THEN mark_synced(db, "access_logs", id, "none") ELSE db
          /\ sync' = IF outcome = "ok"
                     THEN [sync EXCEPT !.stats.logs = @ + 1]
                     ELSE CountError(sync)
    /\ task' = [task EXCEPT ![e] =
                   [(IF outcome = "remote_fail" THEN Dirty(@) ELSE @)
                       EXCEPT !.logs = Tail(@)]]
    /\ UNCHANGED <<lastOp, addCalls, ctl, gpio, cb>>

\* _sync_access_logs is done; _pull_remote_users reads remote_enrollments.
\* An exception here is caught inside _pull_remote_users and only logged.
BeginPull(e, outcome) ==
    /\ task[e].pc = "logs" /\ task[e].logs = <<>>
    /\ task' = [task EXCEPT ![e] =
                   [(IF outcome = "raise" THEN Dirty(@) ELSE @) EXCEPT
                       !.pc = "pull",
                       !.pull = IF outcome = "raise" THEN <<>>
                                ELSE PendingEnrollments(remote)]]
    /\ UNCHANGED <<db, lastOp, remote, sync, addCalls, ctl, gpio, cb>>

\* one iteration of _pull_remote_users' loop: add_user, then the update
\* that clears `pending`; an exception from either ends the whole pull
PullOne(e, outcome) ==
    /\ task[e].pc = "pull" /\ task[e].pull # <<>>
    /\ CanEnqueue /\ Len(db.users) < MaxUsers
    /\ LET rid == Head(task[e].pull)
           name == remote.enrollments[rid].name
           fail == IF outcome = "add_fail" THEN "after_entity" ELSE "none"
       IN /\ db' = add_user(db, name, NULL, -1, fail)
          /\ addCalls' = IF outcome = "add_fail" THEN addCalls
                         ELSE [addCalls EXCEPT ![rid] = @ + 1]
          /\ remote' = IF outcome = "ok"
                       THEN [remote EXCEPT !.enrollments[rid].pending = FALSE,
                                           !.enrollments[rid].local_id =
                                               Len(db.users) + 1]
                       ELSE remote
    /\ task' = [task EXCEPT ![e] =
                   [(IF outcome = "ack_fail" THEN Dirty(@) ELSE @) EXCEPT
                       !.pull = IF outcome = "ok" THEN Tail(@) ELSE <<>>]]
    /\ UNCHANGED <<lastOp, sync, ctl, gpio, cb>>

\* _perform_sync returned: the loop resets _retry_delay and goes to sleep,
\* sync_now returns True
FinishCycle(e) ==
    /\ task[e].pc = "pull" /\ task[e].pull = <<>>
    /\ sync' = Observe(EndCycle(sync, e, FALSE), e, "returned")
    /\ task' = [task EXCEPT ![e] =
                   [Ended(@, "returned") EXCEPT !.pc = Resume(e)]]
    /\ UNCHANGED <<db, lastOp, remote, addCalls, ctl, gpio, cb>>

\* FirebaseSync.stop(): _running = False; the join gives the loop 10 s and
\* then returns, whether or not the thread is still inside a cycle
Stop ==
    /\ sync.running
    /\ sync' = [sync EXCEPT !.running = FALSE]
    /\ UNCHANGED <<db, lastOp, remote, task, addCalls, ctl, gpio, cb>>

\* `while self._running` read as False between two cycles: _sync_loop
\* returns and the thread is over
LoopExit ==
    /\ task["bg"].pc = "idle" /\ ~sync.running
    /\ task' = [task EXCEPT !["bg"].pc = "stopped"]
    /\ UNCHANGED <<db, lastOp, remote, sync, addCalls, ctl, gpio, cb>>

\* the application's own writes while the engine runs (enroll_user.py through
\* UserManager, the controller through AccessLogger)
\* UserManager looks the user up with get_user before it updates or deletes
AppWrite ==
    \/ AddUser("local", NULL, -1, "none")
    \/ \E u \in UserIds :
          get_user(db, u) # NULL /\ UpdateUserFace(u, 1, "none")
    \/ \E u \in UserIds :
          get_user(db, u) # NULL /\ UpdateUserFingerprint(u, 0, "none")
    \/ \E u \in UserIds :
          get_user(db, u) # NULL /\ DeleteUser(u, "none")
    \/ \E row \in LogInputs : LogAccess(row, "none")

SyncStep(e) ==
        \/ \E o \in {"online", "offline", "raise"} : SyncStart(e, o)
        \/ \E o \in {"ok", "remote_fail", "mark_fail"} : PushUser(e, o)
        \/ \E o \in {"ok", "raise"} : BeginLogs(e, o)
        \/ \E o \in {"ok", "remote_fail", "mark_fail"} : PushLog(e, o)
        \/ \E o \in {"ok", "raise"} : BeginPull(e, o)
        \/ \E o \in {"ok", "add_fail", "ack_fail"} : PullOne(e, o)
        \/ FinishCycle(e)

\* FirebaseSync.__init__ and start(): the ceiling comes from the
\* configuration, the delay starts at 5, the loop is running
\* (`max_errors` and `observe` are the model's budgets of injected failures
\* and of recorded cycles)
StartSync(ceiling, max_errors, observe) ==
    [retry_delay |-> InitialRetryDelay, max_retry_delay |-> ceiling,
     running |-> TRUE, stats |-> [users |-> 0, logs |-> 0, errors |-> 0],
     max_errors |-> max_errors, observe |-> observe, observed |-> <<>>]

Init ==
    /\ db = EmptyDb
    /\ lastOp = NoOp
    /\ remote = [users |-> <<>>, access_logs |-> <<>>,
                 enrollments |-> [r \in RemoteIds |->
                     [pending |-> TRUE, name |-> "remote", local_id |-> NULL]]]
    /\ sync = StartSync(max_retry_delay, MaxErrors, 0)
    /\ task = [e \in Executors |-> IdleTask]
    /\ addCalls = [r \in RemoteIds |-> 0]
    /\ ctl = 0 /\ gpio = 0 /\ cb = 0

Next ==
    \/ AppWrite /\ UNCHANGED <<lastOp, remote, sync, task, addCalls, ctl, gpio, cb>>
    \/ SyncStep("bg")

\* the engine while the system runs: the background loop and the writers
Spec == Init /\ [][Next]_vars

NextShutdown ==
    \/ AppWrite /\ UNCHANGED <<lastOp, remote, sync, task, addCalls, ctl, gpio, cb>>
    \/ SyncStep("bg")
    \/ Stop
    \/ LoopExit
    \/ SyncStep("now")

\* the engine through shutdown: stop(), then sync_now beside a loop that
\* may still be inside its cycle
SpecShutdown == Init /\ [][NextShutdown]_vars

\* the ceilings an installation may configure: config.get("max_retry_delay")
\* is taken as it is, below the initial delay or above it
Ceilings == {InitialRetryDelay - 1, max_retry_delay, 4 * InitialRetryDelay}

\* a store with one user and one access event, both waiting in the outbox
PendingDb ==
    log_access(add_user(EmptyDb, "local", 1, 0, "none"),
               LogRow(1, "local", "face", "in", "granted", NULL, 70), "none")

InitLoop ==
    /\ db = PendingDb
    /\ lastOp = NoOp
    /\ remote = [users |-> <<>>, access_logs |-> <<>>,
                 enrollments |-> [r \in RemoteIds |->
                     [pending |-> TRUE, name |-> "remote", local_id |-> NULL]]]
    /\ \E ceiling \in Ceilings : sync = StartSync(ceiling, MaxLoopErrors, MaxObserved)
    /\ task = [e \in Executors |-> IdleTask]
    /\ addCalls = [r \in RemoteIds |-> 0]
    /\ ctl = 0 /\ gpio = 0 /\ cb = 0

NextLoop ==
    \/ SyncStep("bg")
    \/ Stop
    \/ LoopExit

\* the background loop alone, from its start to its end, over a store
\* nobody else writes
SpecLoop == InitLoop /\ [][NextLoop]_vars

NextFlush ==
    \/ NextLoop
    \/ SyncStep("now")

\* the same engine with the flush at shutdown: stop(), then sync_now beside
\* a loop that may still be inside its cycle
SpecFlush == InitLoop /\ [][NextFlush]_vars

(***************************************************************************)
(* main.py, gpio_controller.py, logger.py: the access controller           *)
(***************************************************************************)
\* access events the controller may log in one run of the model
MaxEvents == 3
\* storage failures injected into the controller's log_access calls
MaxFaults == 1
\* config "relay_active_duration", seconds
relay_duration == 5

States ==
    {"IDLE", "DETECTING", "FINGERPRINT_CHECK", "DOOR_OPEN", "DENIED",
     "BUZZER_ALERT", "ENROLLMENT", "SHUTTING_DOWN"}

\* the store at startup: user 1 enrolled with a face and fingerprint 0,
\* user 2 soft-deleted (its encoding may still sit in the encodings cache)
StartDb ==
    [EmptyDb EXCEPT !.users =
        <<[UserRow("alice", 1, 0) EXCEPT !.synced = 1],
          [UserRow("bob", 1, 1) EXCEPT !.synced = 1, !.active = 0]>>]

\* A mutant of get_user_by_fingerprint: SELECT * FROM users WHERE
\* fingerprint_id=?, first row
get_user_by_fingerprint_any_state(d, fingerprint_id) ==
    LET hits == {u \in DOMAIN d.users :
                    d.users[u].fingerprint_id = fingerprint_id}
    IN IF hits = {} THEN NULL ELSE CHOOSE u \in hits : \A v \in hits : u <= v

\* SELECT * FROM users WHERE fingerprint_id=? AND active=1, first row
get_user_by_fingerprint(d, fingerprint_id) ==
    LET hits == {u \in DOMAIN d.users :
                    /\ d.users[u].fingerprint_id = fingerprint_id
                    /\ d.users[u].active = 1}
    IN IF hits = {} THEN NULL ELSE CHOOSE u \in hits : \A v \in hits : u <= v

\* GPIOController.activate_relay up to its timer: an active relay has the
\* timer _relay_timer refers to cancelled, an inactive one is switched on.
\* The method holds no lock, so another thread may run between this and
\* the start of the new timer.  `unlocks` counts the calls.
activate_relay_switch(g) ==
    IF g.relay_active
    THEN [g EXCEPT !.timers = IF g.timer_pending THEN @ - 1 ELSE @,
                   !.timer_pending = FALSE,
                   !.unlocks = @ + 1]
    ELSE [g EXCEPT !.relay_active = TRUE, !.pin = TRUE, !.unlocks = @ + 1]

\* the rest of GPIOController.activate_relay: a new threading.Timer is
\* stored in _relay_timer and started
activate_relay_timer(g, duration) ==
    [g EXCEPT !.timers = @ + 1, !.timer_pending = TRUE, !.duration = duration]

\* GPIOController.deactivate_relay, run by a timer when it expires
deactivate_relay(g) ==
    [g EXCEPT !.relay_active = FALSE, !.pin = FALSE]

\* GPIOController.cleanup: cancel the timer _relay_timer refers to, drive
\* the outputs low
cleanup(g) ==
    [g EXCEPT !.timers = IF g.timer_pending THEN @ - 1 ELSE @,
              !.timer_pending = FALSE, !.pin = FALSE]

\* AccessLogger.log_access_granted / log_access_denied / log_button_event:
\* the row each hands to Database.log_access
GrantedRow(d, user_id, method, confidence) ==
    LogRow(user_id, d.users[user_id].name, method, "in", "granted", NULL,
           confidence)

DeniedRow == LogRow(NULL, "Unknown", "biometric", "in", "denied", NULL, 0)

ButtonRow(button_type) ==
    LogRow(NULL, "Button", IF button_type = "inside" THEN "inside_button"
                           ELSE "outside_button",
           IF button_type = "inside" THEN "out" ELSE "in",
           IF button_type = "outside" THEN "alert" ELSE "granted", NULL, 0)

\* the number of stored access events with the given status
StatusCount(d, status) ==
    Cardinality({i \in DOMAIN d.access_logs : d.access_logs[i].status = status})

EventBudgetLeft == Len(db.access_logs) < MaxEvents

\* a log_access call of the controller may fail (a storage error)
CanFail(fail) == fail # "none" => ctl.faults < MaxFaults
Fault(c, fail) == IF fail # "none" THEN [c EXCEPT !.faults = @ + 1] ELSE c

SyncIdle == UNCHANGED <<lastOp, remote, sync, task, addCalls>>

Looping == ctl.pc = "loop" /\ ctl.running /\ ctl.state # "SHUTTING_DOWN"

\* self.state = State.DENIED; `denials` remembers how many denied events
\* the store held when the denial was decided
Deny(c) == [c EXCEPT !.state = "DENIED", !.denials = StatusCount(db, "denied")]

\* _handle_idle: motion sensing is bypassed
HandleIdle ==
    /\ Looping /\ ctl.state = "IDLE"
    /\ ctl' = [ctl EXCEPT !.state = "DETECTING"]
    /\ UNCHANGED <<db, gpio, cb>> /\ SyncIdle

\* _handle_detecting up to the return of identify_by_face: the camera is
\* opened (or found unavailable), capture_and_recognize returns the id of a
\* known encoding or nothing, and get_user resolves it to an active user
HandleDetecting(camera, face) ==
    /\ Looping /\ ctl.state = "DETECTING"
    /\ IF ~ctl.camera /\ camera = "none"
       THEN ctl' = [ctl EXCEPT !.state = "FINGERPRINT_CHECK"]
       ELSE ctl' = [ctl EXCEPT !.camera = TRUE, !.pc = "detected",
                               !.face = face, !.user = get_user(db, face)]
    /\ UNCHANGED <<db, gpio, cb>> /\ SyncIdle

\* the head of _grant_access: with a GPIO controller, activate_relay is
\* entered
BeginGrant(user, method) ==
    /\ ctl' = [ctl EXCEPT !.pc = "granting", !.user = user, !.method = method]
    /\ gpio' = IF gpio.present THEN activate_relay_switch(gpio) ELSE gpio
    /\ UNCHANGED db

\* the rest of _handle_detecting: grant, or deny
HandleDetected ==
    /\ ctl.pc = "detected"
    /\ IF ctl.user # NULL
       THEN BeginGrant(ctl.user, "face")
       ELSE /\ ctl' = [Deny(ctl) EXCEPT !.pc = "loop"]
            /\ UNCHANGED <<db, gpio>>
    /\ UNCHANGED cb /\ SyncIdle

\* the rest of _grant_access: the relay timer is started (with a GPIO
\* controller), then log_access_granted, then the camera is closed and the
\* state set.  A failing log_access leaves through the main loop's `except`.
GrantAccess(fail) ==
    /\ ctl.pc = "granting"
    /\ EventBudgetLeft /\ CanFail(fail)
    /\ gpio' = IF gpio.present THEN activate_relay_timer(gpio, relay_duration)
               ELSE gpio
    /\ db' = log_access(db, GrantedRow(db, ctl.user, ctl.method,
                                       IF ctl.method = "face" THEN 70 ELSE 120),
                        fail)
    /\ ctl' = IF fail = "none"
              THEN [ctl EXCEPT !.camera = FALSE, !.state = "DOOR_OPEN",
                               !.pc = "loop"]
              ELSE [Fault(ctl, fail) EXCEPT !.pc = "loop"]
    /\ UNCHANGED cb /\ SyncIdle

\* what identify_by_fingerprint returns for a sensor that is connected or
\* not and a search that found sensor id `finger` (-1: nothing, timeout)
FingerprintUser(connected, finger) ==
    IF connected /\ finger # -1 THEN get_user_by_fingerprint(db, finger)
    ELSE NULL

\* _handle_fingerprint: self.fingerprint is None raises AttributeError,
\* which the main loop catches; otherwise the sensor is searched and the
\* sensor id resolved with get_user_by_fingerprint
HandleFingerprint(connected, finger) ==
    /\ Looping /\ ctl.state = "FINGERPRINT_CHECK"
    /\ IF ~ctl.fingerprint
       THEN UNCHANGED <<ctl, db, gpio>>
       ELSE IF FingerprintUser(connected, finger) # NULL
            THEN BeginGrant(FingerprintUser(connected, finger), "fingerprint")
            ELSE /\ ctl' = Deny(ctl)
                 /\ UNCHANGED <<db, gpio>>
    /\ UNCHANGED cb /\ SyncIdle

\* the DOOR_OPEN branch of run(): wait, then leave when the relay is off;
\* self.gpio is None raises AttributeError, caught by the loop
HandleDoorOpen ==
    /\ Looping /\ ctl.state = "DOOR_OPEN"
    /\ ctl' = IF gpio.present /\ ~gpio.relay_active
              THEN [ctl EXCEPT !.state = "IDLE"] ELSE ctl
    /\ UNCHANGED <<db, gpio, cb>> /\ SyncIdle

\* _handle_denied up to its sleep: buzzer, log_access_denied, close camera
HandleDenied(fail) ==
    /\ Looping /\ ctl.state = "DENIED"
    /\ EventBudgetLeft /\ CanFail(fail)
    /\ db' = log_access(db, DeniedRow, fail)
    /\ ctl' = IF fail = "none"
              THEN [ctl EXCEPT !.camera = FALSE, !.pc = "denied_sleep"]
              ELSE Fault(ctl, fail)
    /\ UNCHANGED <<gpio, cb>> /\ SyncIdle

\* _handle_denied after its sleep
HandleDeniedDone ==
    /\ ctl.pc = "denied_sleep"
    /\ ctl' = [ctl EXCEPT !.state = "IDLE", !.pc = "loop"]
    /\ UNCHANGED <<db, gpio, cb>> /\ SyncIdle

\* the BUZZER_ALERT branch of run(): handled by the callback, just wait
HandleBuzzerAlert ==
    /\ Looping /\ ctl.state = "BUZZER_ALERT"
    /\ UNCHANGED <<ctl, db, gpio, cb>> /\ SyncIdle

\* run() leaves its loop (`while self._running`, or the SHUTTING_DOWN
\* branch) and calls _shutdown: the camera is closed, GPIO cleaned up
Shutdown ==
    /\ ctl.pc = "loop" /\ (~ctl.running \/ ctl.state = "SHUTTING_DOWN")
    /\ ctl' = [ctl EXCEPT !.pc = "exited", !.camera = FALSE]
    /\ gpio' = IF gpio.present THEN cleanup(gpio) ELSE gpio
    /\ UNCHANGED <<db, cb>> /\ SyncIdle

\* _signal_handler, run between two bytecodes of the main thread
SignalHandler ==
    /\ ctl.running /\ ctl.pc # "exited"
    /\ ctl' = [ctl EXCEPT !.running = FALSE, !.state = "SHUTTING_DOWN"]
    /\ UNCHANGED <<db, gpio, cb>> /\ SyncIdle

\* the callbacks are registered only when there is a GPIO controller, and
\* RPi.GPIO runs them one at a time on its callback thread
CallbackReady == gpio.present /\ cb = "idle" /\ ctl.pc # "exited"

\* _on_outside_button up to its sleep
OnOutsideButton(fail) ==
    /\ CallbackReady
    /\ IF ctl.state \in {"IDLE", "DENIED"}
       THEN /\ EventBudgetLeft /\ CanFail(fail)
            /\ db' = log_access(db, ButtonRow("outside"), fail)
            /\ ctl' = [Fault(ctl, fail) EXCEPT !.state = "BUZZER_ALERT"]
            /\ cb' = IF fail = "none" THEN "outside_sleep" ELSE "idle"
       ELSE /\ fail = "none" /\ UNCHANGED <<db, ctl, cb>>
    /\ UNCHANGED gpio /\ SyncIdle

\* _on_outside_button after its sleep
OnOutsideButtonDone ==
    /\ cb = "outside_sleep"
    /\ ctl' = [ctl EXCEPT !.state = "IDLE"]
    /\ cb' = "idle"
    /\ UNCHANGED <<db, gpio>> /\ SyncIdle

\* _on_inside_button: activate_relay is entered
OnInsideButton ==
    /\ CallbackReady
    /\ gpio' = activate_relay_switch(gpio)
    /\ cb' = "inside_relay"
    /\ UNCHANGED <<db, ctl>> /\ SyncIdle

\* _on_inside_button up to its sleep: the relay timer is started, then
\* log_button_event, then the state is set
OnInsideButtonLog(fail) ==
    /\ cb = "inside_relay"
    /\ EventBudgetLeft /\ CanFail(fail)
    /\ gpio' = activate_relay_timer(gpio, relay_duration)
    /\ db' = log_access(db, ButtonRow("inside"), fail)
    /\ ctl' = IF fail = "none" THEN [ctl EXCEPT !.state = "DOOR_OPEN"]
              ELSE Fault(ctl, fail)
    /\ cb' = IF fail = "none" THEN "inside_sleep" ELSE "idle"
    /\ SyncIdle

\* _on_inside_button after its sleep of relay_active_duration
OnInsideButtonDone ==
    /\ cb = "inside_sleep"
    /\ ctl' = [ctl EXCEPT !.state = "IDLE"]
    /\ cb' = "idle"
    /\ UNCHANGED <<db, gpio>> /\ SyncIdle

\* a relay timer expires and runs deactivate_relay: the one _relay_timer
\* refers to, or an earlier one that was never cancelled
TimerFires(current) ==
    /\ gpio.present
    /\ IF current THEN gpio.timer_pending
       ELSE gpio.timers > (IF gpio.timer_pending THEN 1 ELSE 0)
    /\ gpio' = [deactivate_relay(gpio) EXCEPT
                   !.timers = @ - 1,
                   !.timer_pending = IF current THEN FALSE ELSE @]
    /\ UNCHANGED <<db, ctl, cb>> /\ SyncIdle

LogFails == {"none", "after_entity"}

\* one step of the main thread inside run()
MainStep ==
    \/ HandleIdle
    \/ \E camera \in {"ok", "none"}, face \in {NULL, 1, 2} :
          HandleDetecting(camera, face)
    \/ HandleDetected
    \/ \E fail \in LogFails : GrantAccess(fail)
    \/ \E connected \in BOOLEAN, finger \in {-1, 0, 1} :
          HandleFingerprint(connected, finger)
    \/ HandleDoorOpen
    \/ \E fail \in LogFails : HandleDenied(fail)
    \/ HandleDeniedDone
    \/ HandleBuzzerAlert
    \/ Shutdown

\* a step of the callback thread that is already inside a callback
CallbackStep ==
    \/ \E fail \in LogFails : OnInsideButtonLog(fail)
    \/ OnOutsideButtonDone
    \/ OnInsideButtonDone

\* a step of a relay timer thread
TimerStep == \E current \in BOOLEAN : TimerFires(current)

\* self.gpio and self.fingerprint are None in _init_modules as written; the
\* guarded branches (`if self.gpio:`) are modelled for a present controller
InitCtl ==
    /\ db = StartDb
    /\ lastOp = NoOp
    /\ remote = 0 /\ sync = 0 /\ task = 0 /\ addCalls = 0
    /\ \E fp \in BOOLEAN :
          ctl = [state |-> "IDLE", pc |-> "loop", running |-> TRUE,
                 camera |-> FALSE, face |-> NULL, user |-> NULL,
                 method |-> "none", fingerprint |-> fp, faults |-> 0,
                 denials |-> 0]
    /\ \E present \in BOOLEAN :
          gpio = [present |-> present, relay_active |-> FALSE, pin |-> FALSE,
                  timer_pending |-> FALSE, timers |-> 0, duration |-> 0,
                  unlocks |-> 0]
    /\ cb = "idle"

NextCtl ==
    \/ MainStep
    \/ CallbackStep
    \/ TimerStep
    \/ \E fail \in LogFails : OnOutsideButton(fail)
    \/ OnInsideButton
    \/ SignalHandler

SpecCtl == InitCtl /\ [][NextCtl]_vars

\* the main thread, the callback thread and the timer threads are
\* scheduled; button presses, signals and storage failures are the
\* environment's
FairCtl ==
    /\ SpecCtl
    /\ WF_vars(MainStep) /\ WF_vars(CallbackStep) /\ WF_vars(TimerStep)

(***************************************************************************)
(* face_recognition_module.py: recognize and capture_and_recognize         *)
(* (the capture loop's position and locals are held in `task`)             *)
(***************************************************************************)
\* the faces detect_and_encode may return for one frame
MaxFaces == 2
\* the num_attempts a caller may pass
MaxAttempts == 3

\* the known encodings loaded into memory, by index in _known_enc_array
Known == {1, 2}

\* face_distance values, in tenths: at and above the default tolerance,
\* and at 1.0
Distances == {5, 6, 10}

\* config.get("tolerance", 0.5), taken as it is
Tolerances == {5, 10}

\* a detected face: its distance to each known encoding
Faces == [Known -> Distances]

\* capture_frame's result: None, or a frame with the faces found in it
NoFrame == [captured |-> FALSE, faces |-> <<>>]

Frames ==
    {NoFrame} \cup
    {[captured |-> TRUE, faces |-> fs] :
        fs \in UNION {[1..n -> Faces] : n \in 0..MaxFaces}}

\* np.argmin(distances): the first index of the smallest distance
ArgMin(face) ==
    CHOOSE k \in Known :
        \A j \in Known : face[k] < face[j] \/ (face[k] = face[j] /\ k <= j)

\* A mutant of Confidence: the distance itself reported as confidence
ConfidenceIsDistance(distance) == distance

\* confidence = 1.0 - best_distance
Confidence(distance) == 10 - distance

\* recognize returning None
NoMatch == [matched |-> FALSE, user_id |-> NULL, confidence |-> 0, distance |-> 0]

\* recognize's loop over the faces of a frame: the first face whose
\* closest known encoding is within the tolerance is returned
RECURSIVE RecognizeFaces(_, _)
RecognizeFaces(faces, tolerance) ==
    IF faces = <<>> THEN NoMatch
    ELSE LET best_idx == ArgMin(Head(faces))
             best_distance == Head(faces)[best_idx]
         IN IF best_distance <= tolerance
            THEN [matched |-> TRUE, user_id |-> best_idx,
                  confidence |-> Confidence(best_distance),
                  distance |-> best_distance]
            ELSE RecognizeFaces(Tail(faces), tolerance)

recognize(frame, tolerance) == RecognizeFaces(frame.faces, tolerance)

\* `if result and result["confidence"] > best_confidence`
Improves(result, best_confidence) ==
    result.matched /\ result.confidence > best_confidence

\* one iteration of capture_and_recognize's loop, and the return when the
\* loop breaks or the attempts are used up.  `frame` and `last` keep the
\* iteration's frame and recognize result, `qualifying` counts the attempts
\* whose recognize returned a match and `best_seen` is the one of them with
\* the highest confidence.
CaptureAttempt(frame) ==
    /\ task.pc = "loop" /\ task.attempt < task.num_attempts
    /\ LET result == IF frame.captured THEN recognize(frame, task.tolerance)
                     ELSE NoMatch
           best_result == IF frame.captured
                             /\ Improves(result, task.best_confidence)
                          THEN result ELSE task.best_result
           break == frame.captured /\ best_result.matched
       IN task' = [task EXCEPT
                      !.attempt = @ + 1,
                      !.frame = frame,
                      !.last = result,
                      !.qualifying = IF result.matched THEN @ + 1 ELSE @,
                      !.best_seen =
                          IF result.matched
                             /\ (~@.matched \/ result.confidence > @.confidence)
                          THEN result ELSE @,
                      !.best_result = best_result,
                      !.best_confidence =
                          IF best_result.matched THEN best_result.confidence
                          ELSE @,
                      !.pc = IF break \/ task.attempt + 1 = task.num_attempts
                             THEN "returned" ELSE "loop"]
    /\ UNCHANGED <<db, lastOp, remote, sync, addCalls, ctl, gpio, cb>>

\* the caller (identify_by_face) takes the result; the module is called again
CaptureReturn ==
    /\ task.pc = "returned"
    /\ \E n \in 1..MaxAttempts :
          task' = [task EXCEPT !.pc = "loop", !.num_attempts = n,
                               !.attempt = 0, !.frame = NoFrame,
                               !.last = NoMatch, !.qualifying = 0,
                               !.best_seen = NoMatch,
                               !.best_result = NoMatch,
                               !.best_confidence = 0]
    /\ UNCHANGED <<db, lastOp, remote, sync, addCalls, ctl, gpio, cb>>

InitFace ==
    /\ \E tolerance \in Tolerances, n \in 1..MaxAttempts :
          task = [pc |-> "loop", tolerance |-> tolerance, num_attempts |-> n,
                  attempt |-> 0, frame |-> NoFrame, last |-> NoMatch,
                  qualifying |-> 0, best_seen |-> NoMatch,
                  best_result |-> NoMatch,
                  best_confidence |-> 0]
    /\ db = 0 /\ lastOp = 0 /\ remote = 0 /\ sync = 0 /\ addCalls = 0
    /\ ctl = 0 /\ gpio = 0 /\ cb = 0

NextFace ==
    \/ \E frame \in Frames : CaptureAttempt(frame)
    \/ CaptureReturn

\* calls of capture_and_recognize on any frames the camera may deliver
SpecFace == InitFace /\ [][NextFace]_vars

(***************************************************************************)
(* user_manager.py, fingerprint_module.py: enrolment, re-enrolment and     *)
(* deletion of users (the sensor's template table is held in `task`)       *)
(***************************************************************************)
\* template positions of the sensor
MaxPositions == 2

Positions == 0..(MaxPositions - 1)
\* enroll_fingerprint's None
NoPosition == -2

\* the sensor with no template stored; `enrolled_by` remembers for each
\* position the user whose finger the stored template was taken from
EmptySensor ==
    [templates |-> {}, enrolled_by |-> [p \in Positions |-> NULL]]

\* FingerprintModule._find_free_position: the lowest unused position
_find_free_position(templates) ==
    LET free == Positions \ templates
    IN IF free = {} THEN NoPosition
       ELSE CHOOSE p \in free : \A q \in free : p <= q

\* FingerprintModule.enroll_fingerprint: the position it returns; None when
\* the sensor is not connected, the captures fail or the storage is full
enroll_fingerprint(s, connected, captured) ==
    IF connected /\ captured THEN _find_free_position(s.templates)
    ELSE NoPosition

\* sensor.storeTemplate(position, 0x01) for the finger of `user_id`
StoreTemplate(s, position, user_id) ==
    IF position = NoPosition THEN s
    ELSE [s EXCEPT !.templates = @ \cup {position},
                   !.enrolled_by[position] = user_id]

\* FingerprintModule.delete_fingerprint
delete_fingerprint(s, connected, position) ==
    IF connected /\ position \in s.templates
    THEN [s EXCEPT !.templates = @ \ {position},
                   !.enrolled_by[position] = NULL]
    ELSE s

\* the users rows are bounded by MaxUsers, the queue ids by MaxQueueSeq
CanAddUser == Len(db.users) < MaxUsers /\ CanEnqueue

\* UserManager.register_user
register_user(enroll_face, enroll_fp, face_ok, connected, captured) ==
    LET face_encoding == IF enroll_face /\ face_ok THEN 1 ELSE NULL
        user_id == Len(db.users) + 1
        enrolled == IF enroll_fp /\ connected
                    THEN enroll_fingerprint(task, connected, captured)
                    ELSE NoPosition
        fingerprint_id == IF enrolled = NoPosition THEN -1 ELSE enrolled
        gives_up ==
            \/ enroll_face /\ face_encoding = NULL /\ ~enroll_fp
            \/ /\ enroll_fp /\ connected /\ enrolled = NoPosition
               /\ face_encoding = NULL
    IN /\ CanAddUser
       /\ task' = StoreTemplate(task, enrolled, user_id)
       /\ db' = IF gives_up THEN db
                ELSE add_user(db, "local", face_encoding, fingerprint_id,
                              "none")

\* UserManager.update_user_fingerprint
UM_update_user_fingerprint(user_id, connected, captured) ==
    LET user == get_user(db, user_id)
        old_fid == db.users[user].fingerprint_id
        wiped == IF old_fid >= 0
                 THEN delete_fingerprint(task, connected, old_fid)
                 ELSE task
        new_fid == enroll_fingerprint(wiped, connected, captured)
    IN /\ CanEnqueue
       /\ IF user = NULL
          THEN UNCHANGED <<db, task>>
          ELSE /\ task' = StoreTemplate(wiped, new_fid, user_id)
               /\ db' = IF new_fid = NoPosition THEN db
                        ELSE update_user_fingerprint(db, user_id, new_fid,
                                                     "none")

\* UserManager.delete_user
UM_delete_user(user_id, connected) ==
    LET user == get_user(db, user_id)
        fid == db.users[user].fingerprint_id
    IN /\ CanEnqueue
       /\ IF user = NULL
          THEN UNCHANGED <<db, task>>
          ELSE /\ task' = IF fid >= 0
                          THEN delete_fingerprint(task, connected, fid)
                          ELSE task
               /\ db' = delete_user(db, user_id, "none")

UsersIdle ==
    UNCHANGED <<lastOp, remote, sync, addCalls, ctl, gpio, cb>>

UM_RegisterUser ==
    /\ \E enroll_face, enroll_fp, face_ok, connected, captured \in BOOLEAN :
          register_user(enroll_face, enroll_fp, face_ok, connected, captured)
    /\ UsersIdle

UM_UpdateUserFingerprint ==
    /\ \E user_id \in UserIds, connected, captured \in BOOLEAN :
          UM_update_user_fingerprint(user_id, connected, captured)
    /\ UsersIdle

UM_DeleteUser ==
    /\ \E user_id \in UserIds, connected \in BOOLEAN :
          UM_delete_user(user_id, connected)
    /\ UsersIdle

InitUsers ==
    /\ db = EmptyDb
    /\ task = EmptySensor
    /\ lastOp = 0 /\ remote = 0 /\ sync = 0 /\ addCalls = 0
    /\ ctl = 0 /\ gpio = 0 /\ cb = 0

NextUsers == UM_RegisterUser \/ UM_UpdateUserFingerprint \/ UM_DeleteUser

SpecUsers == InitUsers /\ [][NextUsers]_vars

(***************************************************************************)
(* Claims about the store (SpecStore)                                      *)
(***************************************************************************)
RowExists(d, table_name, record_id) ==
    IF table_name = "users" THEN record_id \in DOMAIN d.users
    ELSE record_id \in DOMAIN d.access_logs

RowSynced(d, table_name, record_id) ==
    IF table_name = "users" THEN d.users[record_id].synced
    ELSE d.access_logs[record_id].synced

\* C1: sync_queue holds at most one row per (table_name, record_id),
\* whatever sequence of add, update, delete, log and mark_synced calls ran.
C1_AtMostOneQueueRowPerEntity ==
    \A t \in Tables, id \in UserIds \cup LogIds :
        Cardinality(QueueRows(db, t, id)) <= 1

\* C2: every users row and every access_logs row with synced=0 has at
\* least one sync_queue row with its (table_name, record_id).
C2_UnsyncedHasOutbox ==
    \A t \in Tables, id \in UserIds \cup LogIds :
        (RowExists(db, t, id) /\ RowSynced(db, t, id) = 0)
            => QueueRows(db, t, id) # {}

\* C2 witness: a user and a log are unsynced, each with its outbox row,
\* after a mark_synced call went through for another row id.
C2_Witness ==
    /\ lastOp.op = "mark_synced" /\ ~lastOp.failed
    /\ \E u \in DOMAIN db.users :
          db.users[u].synced = 0 /\ QueueRows(db, "users", u) # {}
    /\ \E l \in DOMAIN db.access_logs :
          db.access_logs[l].synced = 0 /\ QueueRows(db, "access_logs", l) # {}

\* C3: mark_synced(table, id) is atomic: when it returns, the entity has
\* synced=1 and no sync_queue row is left for it; when it fails between
\* its UPDATE and its DELETE, or before its commit, the store is unchanged.
C3_MarkSyncedAtomic ==
    [][lastOp'.op = "mark_synced" =>
          LET t == lastOp'.table_name
              id == lastOp'.record_id
          IN IF lastOp'.failed
             THEN db' = db
             ELSE /\ RowExists(db', t, id) => RowSynced(db', t, id) = 1
                  /\ QueueRows(db', t, id) = {}]_vars

\* C3 witness: a mark_synced call has failed on an entity that is unsynced
\* and queued, and both are still so.
C3_Witness ==
    /\ lastOp.op = "mark_synced" /\ lastOp.failed
    /\ RowExists(db, lastOp.table_name, lastOp.record_id)
    /\ RowSynced(db, lastOp.table_name, lastOp.record_id) = 0
    /\ QueueRows(db, lastOp.table_name, lastOp.record_id) # {}

Mutators ==
    {"add_user", "update_user_face", "update_user_fingerprint",
     "delete_user", "log_access"}

\* C4: a call of add_user, update_user_face, update_user_fingerprint,
\* delete_user or log_access that fails after its entity write and before
\* its commit leaves the store as it was: no entity change, no outbox row.
C4_FailedWriteLeavesStoreUnchanged ==
    [][(lastOp'.op \in Mutators /\ lastOp'.failed) => db' = db]_vars

\* C4 witness: add_user has failed on a store that already holds a user
\* and an outbox row, and the row it inserted is not there.
C4_Witness ==
    /\ lastOp.op = "add_user" /\ lastOp.failed
    /\ lastOp.record_id \notin DOMAIN db.users
    /\ Len(db.users) = 1
    /\ db.sync_queue # <<>>

\* C5: every sync_queue row refers to an entity row that exists and is
\* unsynced, also after an update or delete of an id that matches no row.
C5_NoDanglingOutboxItem ==
    \A i \in 1..Len(db.sync_queue) :
        LET q == db.sync_queue[i]
        IN /\ RowExists(db, q.table_name, q.record_id)
           /\ RowSynced(db, q.table_name, q.record_id) = 0

(***************************************************************************)
(* Claims about the sync engine (Spec, SpecShutdown)                       *)
(***************************************************************************)
\* C6: no local change is lost by the sync engine: a user whose row is
\* marked synced has, as its remote copy, the document of the current row
\* (an update or soft delete made after get_unsynced_users read the row
\* leaves it unsynced, or is what was pushed).
C6_SyncedUserEqualsRemote ==
    \A u \in DOMAIN db.users :
        db.users[u].synced = 1 =>
            /\ u \in DOMAIN remote.users
            /\ remote.users[u] = UserDoc(db.users[u])

\* C7: a remote pending enrollment is materialized as a local user at most
\* once, across sync cycles and failures of the acknowledgement write.
C7_EnrollmentAddedAtMostOnce ==
    \A r \in RemoteIds : addCalls[r] <= 1

(***************************************************************************)
(* Claims about the access controller (SpecCtl, FairCtl)                   *)
(***************************************************************************)
NonTerminal ==
    {"DETECTING", "FINGERPRINT_CHECK", "DOOR_OPEN", "DENIED", "BUZZER_ALERT"}

\* C8: the controller never wedges: whenever it is in DETECTING,
\* FINGERPRINT_CHECK, DOOR_OPEN, DENIED or BUZZER_ALERT, also after an absent
\* capability or a failing log_access, it eventually reaches IDLE or
\* SHUTTING_DOWN (or run() has returned, or the run has used up the events
\* it may log).
Recovered ==
    \/ ctl.state \in {"IDLE", "SHUTTING_DOWN"}
    \/ ctl.pc = "exited"
    \/ ~EventBudgetLeft

C8_NeverWedges == (ctl.state \in NonTerminal) ~> Recovered

\* the step of _handle_detecting that acts on the result of identify_by_face
DetectingDecides == ctl.pc = "detected" /\ ctl'.pc # "detected"

\* the step in which _grant_access, called for a face match, finishes
FaceGrantEnds == ctl.pc = "granting" /\ ctl.method = "face" /\ ctl'.pc = "loop"

\* C9: a face match for an active user in DETECTING moves the controller to
\* DOOR_OPEN, logs exactly one granted event for that user and starts the
\* unlock timer with the configured duration.
C9_FaceMatchGrants ==
    [][FaceGrantEnds =>
          /\ ctl'.state = "DOOR_OPEN"
          /\ Len(db'.access_logs) = Len(db.access_logs) + 1
          /\ LET event == db'.access_logs[Len(db'.access_logs)]
             IN event.status = "granted" /\ event.user_id = ctl.user
          /\ gpio'.timer_pending /\ gpio'.duration = relay_duration]_vars

\* C10: when face recognition ends in DETECTING without a match and a
\* fingerprint sensor is available, the next state is FINGERPRINT_CHECK.
C10_FaceFailureFallsBackToFingerprint ==
    [][(DetectingDecides /\ ctl.user = NULL /\ ctl.fingerprint) =>
          ctl'.state = "FINGERPRINT_CHECK"]_vars

\* C11: when face recognition ends without a match and there is no
\* fingerprint sensor, the controller goes from DETECTING to DENIED; before
\* it leaves DENIED (other than by shutting down) exactly one denied event
\* has been logged for that denial; and DENIED is followed by IDLE.
C11_FaceFailureDenied ==
    /\ [][(DetectingDecides /\ ctl.user = NULL /\ ~ctl.fingerprint) =>
             ctl'.state = "DENIED"]_vars
    /\ [][(ctl.state = "DENIED" /\ ctl'.state \notin {"DENIED", "SHUTTING_DOWN"}) =>
             StatusCount(db', "denied") = ctl.denials + 1]_vars
    /\ (ctl.state = "DENIED") ~> Recovered

\* the step of _handle_fingerprint that ends the fingerprint search
FingerprintDecides(connected, finger) ==
    ctl.fingerprint /\ HandleFingerprint(connected, finger)

\* the step in which _grant_access, called for a fingerprint match, finishes
FingerprintGrantEnds ==
    ctl.pc = "granting" /\ ctl.method = "fingerprint" /\ ctl'.pc = "loop"

\* C12: from FINGERPRINT_CHECK the controller goes to DOOR_OPEN exactly when
\* the search returns a sensor id of an active user, and to DENIED on a
\* timeout, no match, a disconnected sensor or an id without active user;
\* FINGERPRINT_CHECK is always followed by one of the two.
C12_FingerprintOutcome ==
    /\ [][\A connected \in BOOLEAN, finger \in {-1, 0, 1} :
             FingerprintDecides(connected, finger) =>
                IF FingerprintUser(connected, finger) # NULL
                THEN ctl'.pc = "granting" /\ ctl'.state = "FINGERPRINT_CHECK"
                ELSE ctl'.state = "DENIED"]_vars
    /\ [][FingerprintGrantEnds => ctl'.state = "DOOR_OPEN"]_vars
    /\ [][(ctl.state = "FINGERPRINT_CHECK" /\ ctl'.state = "DOOR_OPEN"
           /\ cb' = cb) => FingerprintGrantEnds]_vars
    /\ (ctl.state = "FINGERPRINT_CHECK")
          ~> (ctl.state \in {"DOOR_OPEN", "DENIED"} \/ Recovered)

\* C13: the controller leaves DOOR_OPEN (other than by shutting down) only
\* for IDLE and only when no unlock timer is pending, and DOOR_OPEN is
\* always eventually followed by IDLE or SHUTTING_DOWN.
C13_DoorOpenUntilTimerExpires ==
    /\ [][(ctl.state = "DOOR_OPEN" /\ ctl'.state \notin {"DOOR_OPEN", "SHUTTING_DOWN"}) =>
             ctl'.state = "IDLE" /\ gpio.timers = 0]_vars
    /\ (ctl.state = "DOOR_OPEN") ~> Recovered

\* the step in which _on_inside_button has unlocked and logged
InsideButtonHandled == cb = "inside_relay" /\ cb' # "inside_relay"

\* C14: an inside-button edge, in whatever state it arrives, commands the
\* unlock and logs exactly one granted event with method button_inside.
C14_InsideButtonUnlocksAndLogs ==
    [][InsideButtonHandled =>
          /\ gpio'.relay_active /\ gpio'.timer_pending
          /\ Len(db'.access_logs) = Len(db.access_logs) + 1
          /\ LET event == db'.access_logs[Len(db'.access_logs)]
             IN event.status = "granted" /\ event.method = "button_inside"]_vars

\* an outside-button edge is delivered to _on_outside_button
OutsideButtonEdge == \E fail \in LogFails : OnOutsideButton(fail)

\* C15: an outside-button edge in IDLE or DENIED moves the controller to
\* BUZZER_ALERT and logs exactly one alert event, and BUZZER_ALERT is then
\* followed by IDLE; in every other state the edge changes neither the
\* state nor the event log.
C15_OutsideButtonAlert ==
    /\ [][OutsideButtonEdge =>
             IF ctl.state \in {"IDLE", "DENIED"}
             THEN /\ ctl'.state = "BUZZER_ALERT"
                  /\ Len(db'.access_logs) = Len(db.access_logs) + 1
                  /\ db'.access_logs[Len(db'.access_logs)].status = "alert"
             ELSE /\ ctl'.state = ctl.state
                  /\ db'.access_logs = db.access_logs]_vars
    /\ (ctl.state = "BUZZER_ALERT") ~> Recovered

\* C16: a termination signal moves the controller to SHUTTING_DOWN from any
\* state, and once the state is SHUTTING_DOWN no later step (main loop
\* handler, button callback or timer) changes it.
C16_ShuttingDownIsTerminal ==
    /\ [][SignalHandler => ctl'.state = "SHUTTING_DOWN"]_vars
    /\ [][ctl.state = "SHUTTING_DOWN" => ctl'.state = "SHUTTING_DOWN"]_vars

\* a step taken by the callback thread or by a relay timer
AsyncStep ==
    \/ OutsideButtonEdge
    \/ OnInsideButton
    \/ CallbackStep
    \/ TimerStep

\* C17: the controller state is written only by the controller loop: no
\* step of a button callback or of a timer changes it.
C17_OnlyLoopWritesState ==
    [][AsyncStep => ctl'.state = ctl.state]_vars

\* C18: every grant is recorded: once no grant is in progress, each relay
\* activation for a biometric grant or an inside-button press has its
\* granted event in the store.
C18_GrantsAreRecorded ==
    (ctl.pc # "granting" /\ cb # "inside_relay")
        => gpio.unlocks <= StatusCount(db, "granted")

\* C19: at most one relay timer is pending at any time, and the relay is
\* not switched off while the latest timer is pending.
C19_OneRelayTimer ==
    gpio.present =>
        /\ gpio.timers <= 1
        /\ gpio.timer_pending => gpio.relay_active

C21_RetryDelayCapped ==
    /\ sync.retry_delay <= sync.max_retry_delay
    /\ task["bg"].cycle = "offline" =>
           sync.retry_delay =
               Min(2 * task["bg"].delay_before, sync.max_retry_delay)

\* a background cycle that is over and failed: its probe was negative, it
\* ended in an exception, or a remote operation in it threw
FailedCycle ==
    task["bg"].cycle \in
        {"offline", "raised", "raised_clean", "raised_dirty", "returned_dirty"}

\* C22: every failed background cycle is treated as a failure: the error
\* counter has increased by at least one and the retry delay is the doubled
\* (capped) delay, not the floor.
C22_FailedCycleCountsAndBacksOff ==
    FailedCycle =>
        /\ sync.stats.errors > task["bg"].errors_before
        /\ sync.retry_delay =
               Min(2 * task["bg"].delay_before, sync.max_retry_delay)

\* the first three cycles of a freshly started loop: the probe was negative
\* twice, then positive and the cycle returned
FailsTwiceThenSucceeds ==
    /\ Len(sync.observed) = 3
    /\ sync.observed[1].cycle = "offline"
    /\ sync.observed[2].cycle = "offline"
    /\ sync.observed[3].cycle = "returned"

\* C23: from a freshly started engine whose probe fails twice and then
\* succeeds, the retry delays observed after the three cycles are base,
\* 2 x base and the floor, base being the initial retry delay (for a
\* ceiling that leaves room for 2 x base).
C23_DelaySequence ==
    FailsTwiceThenSucceeds /\ sync.max_retry_delay >= 2 * InitialRetryDelay =>
        /\ sync.observed[1].delay = InitialRetryDelay
        /\ sync.observed[2].delay = 2 * InitialRetryDelay
        /\ sync.observed[3].delay = InitialRetryDelay

\* the step marks a user row (an access-log row) synced that was not
MarksUserSynced ==
    \E id \in DOMAIN db.users :
        db.users[id].synced = 0 /\ db'.users[id].synced = 1

MarksLogSynced ==
    \E id \in DOMAIN db.access_logs :
        db.access_logs[id].synced = 0 /\ db'.access_logs[id].synced = 1

\* C24: each pending item is marked synced and counted in the sync
\* statistics exactly once, also when sync_now runs while the background
\* loop is still in a cycle: a step that counts a pushed user or access log
\* is a step that turns that row from unsynced to synced.
C24_CountedExactlyOnce ==
    [][/\ sync'.stats.users > sync.stats.users => MarksUserSynced
       /\ sync'.stats.logs > sync.stats.logs => MarksLogSynced]_vars

\* C25: no remote failure stops the background loop: after a cycle that
\* failed the loop is at its sleep, from where it starts another cycle, and
\* the loop is over only after the cancellation flag has been cleared.
C25_LoopSurvivesFailures ==
    /\ task["bg"].pc = "stopped" => ~sync.running
    /\ FailedCycle /\ sync.running => task["bg"].pc = "idle"

\* a cycle ended in an exception and the loop is inside a later cycle
C25_Witness ==
    /\ sync.running
    /\ sync.stats.errors > 0
    /\ Len(sync.observed) > 0 /\ sync.observed[1].cycle = "raised"
    /\ task["bg"].pc = "logs"

\* C26: sync_now returns True when its cycle succeeded and False when it
\* failed (negative probe, or an exception in it), and no step of sync_now
\* changes the retry delay of the background loop.
C26_SyncNowResult ==
    [][task'["now"] # task["now"] =>
          /\ sync'.retry_delay = sync.retry_delay
          /\ task'["now"].pc = "done" =>
                 (task'["now"].result = "True"
                      <=> task'["now"].cycle = "returned_clean")]_vars

\* a remote write that threw: one iteration of the push loop of users or of
\* access logs whose set raised
RemoteWriteFails(e) == PushUser(e, "remote_fail") \/ PushLog(e, "remote_fail")

\* C27: when the remote write of a user or access-log record fails, the
\* record keeps synced=0 and its outbox item stays in sync_queue (the store
\* is as it was), and the error counter increases by exactly one; this holds
\* for every failure, however many came before.
C27_FailedPushKeepsItem ==
    [][\A e \in Executors :
          RemoteWriteFails(e) =>
              /\ db' = db
              /\ get_unsynced_users(db') = get_unsynced_users(db)
              /\ get_unsynced_logs(db') = get_unsynced_logs(db)
              /\ sync'.stats.errors = sync.stats.errors + 1]_vars

\* the remote write of the user failed in two cycles that returned, and the
\* user is still unsynced with its outbox row
C27_Witness ==
    /\ sync.stats.errors = 2
    /\ Len(sync.observed) = 2
    /\ sync.observed[1].cycle = "returned" /\ sync.observed[2].cycle = "returned"
    /\ DOMAIN remote.users = {}
    /\ get_unsynced_users(db) = <<1>>
    /\ QueueRows(db, "users", 1) # {}

\* a step of executor e inside a cycle that began with every row marked
\* synced and in which no read or remote operation has failed
IdleCycleStep(e) ==
    /\ task'[e] # task[e]
    /\ task'[e].all_synced
    /\ task'[e].cycle \in {"clean", "returned_clean"}

\* the push phases of a cycle: up to the start of the enrollment pull
PushPhase(e) == task[e].pc \in {"idle", "users", "logs"}

\* mark_synced on a row that is synced and has no outbox row
MarkSyncedAgain(table_name, record_id) ==
    /\ RowExists(db, table_name, record_id)
    /\ RowSynced(db, table_name, record_id) = 1
    /\ QueueRows(db, table_name, record_id) = {}
    => mark_synced(db, table_name, record_id, "none") = db

\* C28: a sync cycle run when every record is already marked synced writes
\* nothing to the remote and changes no local state (no synced flag, no
\* outbox row, no sync counter) while it pushes, nor in its pull when no
\* enrollment is pending; and mark_synced on an already-synced record
\* without outbox row leaves the store unchanged.
C28_PushIdempotent ==
    /\ [][\A e \in Executors :
             IdleCycleStep(e)
                 /\ (PushPhase(e) \/ PendingEnrollments(remote) = <<>>)
             => /\ db' = db
                /\ remote' = remote
                /\ sync'.stats = sync.stats]_vars
    /\ [](\A id \in UserIds : MarkSyncedAgain("users", id))
    /\ [](\A id \in LogIds : MarkSyncedAgain("access_logs", id))

\* a whole cycle has run over a store in which everything was synced
C28_Witness ==
    /\ task["bg"].all_synced
    /\ task["bg"].cycle = "returned_clean"
    /\ Len(db.users) > 0 /\ Len(db.access_logs) > 0
    /\ sync.stats.users > 0 /\ sync.stats.logs > 0
    /\ db.sync_queue = <<>>

(***************************************************************************)
(* Claims about the outbox while the system runs (Spec)                    *)
(***************************************************************************)
\* the remote holds a document for the entity
RemoteHas(r, table_name, record_id) ==
    IF table_name = "users" THEN record_id \in DOMAIN r.users
    ELSE record_id \in DOMAIN r.access_logs

\* the step removes outbox rows of the entity
OutboxItemRemoved(table_name, record_id) ==
    Cardinality(QueueRows(db', table_name, record_id))
        < Cardinality(QueueRows(db, table_name, record_id))

\* the step is an iteration of the engine's push loop for the entity whose
\* remote set returned
PushedNow(table_name, record_id) ==
    \E e \in Executors :
        IF table_name = "users"
        THEN /\ PushUser(e, "ok")
             /\ Head(task[e].users).id = record_id
        ELSE /\ PushLog(e, "ok")
             /\ Head(task[e].logs) = record_id

\* C29: an outbox item is removed only after a confirmed remote write for
\* that exact entity: sync_queue rows of (table, id) disappear only in a
\* push step of the engine whose remote set for that table and id returned,
\* and in no step of any other operation.
C29_OutboxRemovedOnlyAfterRemoteWrite ==
    [][db'.sync_queue # db.sync_queue =>
          \A table_name \in Tables :
              \A record_id \in UserIds \cup LogIds :
                  OutboxItemRemoved(table_name, record_id) =>
                      /\ PushedNow(table_name, record_id)
                      /\ RemoteHas(remote', table_name, record_id)]_vars

\* the outbox row of user 1 is gone after its push, that of another entity
\* is still waiting
C29_Witness ==
    /\ RowExists(db, "users", 1)
    /\ QueueRows(db, "users", 1) = {}
    /\ RemoteHas(remote, "users", 1)
    /\ sync.stats.users > 0
    /\ db.sync_queue # <<>>

(***************************************************************************)
(* Claims about delete_user (SpecStore)                                    *)
(***************************************************************************)
\* the step is a call of delete_user that committed, for a row that exists
DeleteUserDone ==
    /\ lastOp'.op = "delete_user" /\ ~lastOp'.failed
    /\ lastOp'.record_id \in DOMAIN db.users

\* C30: delete_user(id) is a soft delete: the users row stays and has
\* active=0, no step ever removes a users row, and the outbox item that
\* delete_user enqueues has op update.
C30_DeleteUserSoftEnqueuesUpdate ==
    [][/\ Len(db'.users) >= Len(db.users)
       /\ DeleteUserDone =>
              /\ db'.users[lastOp'.record_id].active = 0
              /\ Len(db'.sync_queue) = Len(db.sync_queue) + 1
              /\ db'.sync_queue[Len(db'.sync_queue)].action = "update"]_vars

(***************************************************************************)
(* Claims about the queries of the store (SpecStore)                       *)
(***************************************************************************)
\* the fingerprint references a caller may look up
FingerprintRefs == SensorIds \cup {-1}

\* the row is there and has active=1
ActiveRow(d, user_id) ==
    user_id \in DOMAIN d.users /\ d.users[user_id].active = 1

\* C31: after any sequence of add_user, update and delete_user calls,
\* get_user, get_user_by_fingerprint and get_all_users return only rows
\* with active=1; a soft-deleted user is returned by none of them.
C31_QueriesReturnOnlyActive ==
    /\ \A u \in UserIds :
          get_user(db, u) # NULL => ActiveRow(db, get_user(db, u))
    /\ \A ref \in FingerprintRefs :
          get_user_by_fingerprint(db, ref) # NULL
              => ActiveRow(db, get_user_by_fingerprint(db, ref))
    /\ \A i \in 1..Len(get_all_users(db)) :
          ActiveRow(db, get_all_users(db)[i])

\* user 1 has been soft-deleted; user 2, with the same fingerprint
\* reference, is active and is what the queries return
C31_Witness ==
    /\ lastOp.op = "delete_user" /\ ~lastOp.failed /\ lastOp.record_id = 1
    /\ Len(db.users) = 2
    /\ db.users[1].active = 0
    /\ db.users[1].fingerprint_id = db.users[2].fingerprint_id
    /\ get_user(db, 1) = NULL
    /\ get_user_by_fingerprint(db, db.users[1].fingerprint_id) = 2
    /\ get_all_users(db) = <<2>>

(***************************************************************************)
(* Claims about access events (Spec)                                       *)
(***************************************************************************)
\* an access_logs row without its synced flag
EventContent(row) == [row EXCEPT !.synced = 0]

\* C32: access events are insert-only and immutable: no step of the store
\* or of the sync engine deletes an access_logs row or changes its user_id,
\* user_name, method, direction, status, image reference or confidence;
\* only its synced flag changes.
C32_AccessEventsImmutable ==
    [][db' # db =>
          \A id \in DOMAIN db.access_logs :
              /\ id \in DOMAIN db'.access_logs
              /\ EventContent(db'.access_logs[id])
                     = EventContent(db.access_logs[id])]_vars

\* the event of a recognised user was pushed and marked synced, and the
\* store was written again afterwards
C32_Witness ==
    /\ Len(db.access_logs) = 1
    /\ db.access_logs[1].synced = 1
    /\ db.access_logs[1].user_id = 1 /\ db.access_logs[1].confidence = 70
    /\ sync.stats.logs > 0
    /\ Len(db.sync_queue) > 0

(***************************************************************************)
(* Claims about the events the controller writes (SpecCtl)                 *)
(***************************************************************************)
\* the values the AccessEvent record allows; confidences are in hundredths
EventMethods == {"face", "fingerprint", "button_inside", "button_outside"}

WellFormedEvent(row) ==
    /\ row.method \in EventMethods
    /\ row.direction \in {"in", "out"}
    /\ row.status \in {"granted", "denied", "alert"}
    /\ row.confidence \in 0..100

\* C33: every access event the controller writes (face grant, fingerprint
\* grant, denial, either button) has its method in {face, fingerprint,
\* button_inside, button_outside}, its direction in {in, out}, its status
\* in {granted, denied, alert} and its confidence within [0,1].
C33_EventsWellFormed ==
    \A id \in DOMAIN db.access_logs : WellFormedEvent(db.access_logs[id])

(***************************************************************************)
(* Claims about face recognition (SpecFace)                                *)
(***************************************************************************)
\* C34: capture_and_recognize makes at most num_attempts attempts, stops
\* right after the first attempt that yields a qualifying match, returns
\* the highest-confidence qualifying match seen, and returns no match only
\* if no attempt produced a qualifying match.
C34_CaptureAndRecognize ==
    /\ task.attempt <= task.num_attempts
    /\ task.qualifying > 0 =>
           /\ task.pc = "returned"
           /\ task.qualifying = 1 /\ task.last.matched
    /\ task.pc = "returned" =>
           /\ task.best_result.matched <=> task.qualifying > 0
           /\ task.best_result = task.best_seen

\* the distance of a face to its closest known encoding
BestDistance(face) == face[ArgMin(face)]

\* C35: recognize accepts a match iff the distance to the closest known
\* encoding is at most the tolerance, reports confidence = 1 - distance,
\* and of two probes the one with the lower distance never gets the lower
\* confidence.
C35_RecognizeThreshold ==
    /\ task.frame.captured /\ Len(task.frame.faces) = 1 =>
           LET distance == BestDistance(task.frame.faces[1])
           IN /\ task.last.matched <=> distance <= task.tolerance
              /\ task.last.matched =>
                     /\ task.last.distance = distance
                     /\ task.last.confidence = 10 - distance
                     /\ task.last.user_id = ArgMin(task.frame.faces[1])
    /\ task.frame.captured /\ task.last.matched =>
           /\ task.last.distance <= task.tolerance
           /\ task.last.confidence = 10 - task.last.distance
    /\ \A f \in Faces, g \in Faces :
           BestDistance(f) <= BestDistance(g) =>
               Confidence(BestDistance(f)) >= Confidence(BestDistance(g))

\* a face exactly at the tolerance was accepted, for its closest encoding,
\* after a nearer-miss of the other known encoding
C35_Witness ==
    /\ task.frame.captured /\ Len(task.frame.faces) = 1
    /\ task.last.matched
    /\ task.last.distance = task.tolerance
    /\ task.last.user_id = 2
    /\ task.frame.faces[1][1] > task.tolerance

(***************************************************************************)
(* Claims about shutdown (SpecFlush)                                       *)
(***************************************************************************)
\* the executor is inside _perform_sync
InCycle(e) == task[e].pc \in {"users", "logs", "pull"}

\* C36: on shutdown the background loop is stopped before the final
\* sync_now, which is attempted once; the final sync never runs while a
\* cycle of the background loop is still in progress.
C36_FinalSyncAfterLoop ==
    /\ task["now"].pc # "idle" => ~sync.running
    /\ InCycle("now") => ~InCycle("bg")

(***************************************************************************)
(* Claims about the attempt counter of outbox items (SpecLoop)             *)
(***************************************************************************)
\* the step adds one to the attempts of every outbox row of the entity,
\* and the entity has such a row
AttemptCounted(table_name, record_id) ==
    /\ QueueRows(db, table_name, record_id) # {}
    /\ Len(db'.sync_queue) = Len(db.sync_queue)
    /\ \A i \in QueueRows(db, table_name, record_id) :
           db'.sync_queue[i].attempts = db.sync_queue[i].attempts + 1

\* C37: each failed push of a record increments the attempts counter of
\* that record's sync_queue row, so that attempts counts the failed pushes
\* of the entity since it was enqueued.
C37_FailedPushCountsAttempt ==
    [][\A e \in Executors :
          /\ PushUser(e, "remote_fail")
                 => AttemptCounted("users", Head(task[e].users).id)
          /\ PushLog(e, "remote_fail")
                 => AttemptCounted("access_logs", Head(task[e].logs))]_vars

(***************************************************************************)
(* Claims about the relay (SpecCtl, FairCtl)                               *)
(***************************************************************************)
\* a thread is inside activate_relay, after the test of _relay_active and
\* before the new timer is started
InActivateRelay == ctl.pc = "granting" \/ cb = "inside_relay"

\* C38: the door always re-locks: whenever the relay is active (and no
\* thread is inside activate_relay about to start the timer) a revert timer
\* is pending, and every activation of the relay is eventually followed by
\* the relay being deactivated, whatever the interleaving of the
\* activate_relay calls, the timer expiries and cleanup
C38_DoorAlwaysRelocks ==
    /\ [](gpio.present /\ gpio.relay_active /\ ~InActivateRelay
            => gpio.timer_pending)
    /\ (gpio.present /\ gpio.relay_active) ~> ~gpio.relay_active

\* a user row that is soft-deleted
SoftDeleted(user_id) ==
    user_id \in DOMAIN db.users /\ db.users[user_id].active = 0

\* C39: a soft-deleted user is never granted access: no granted event
\* names a user whose row has active = 0, and _grant_access (which
\* activates the relay) is never entered for such a user, although the
\* face encodings and the sensor may still match them
C39_SoftDeletedNeverGranted ==
    /\ \A id \in DOMAIN db.access_logs :
          db.access_logs[id].status = "granted"
              => ~SoftDeleted(db.access_logs[id].user_id)
    /\ ctl.pc = "granting" => ctl.user # NULL /\ ~SoftDeleted(ctl.user)

\* the stale encoding of soft-deleted user 2 was recognised and the
\* attempt was denied
C39_Witness ==
    /\ SoftDeleted(2) /\ ctl.face = 2 /\ ctl.user = NULL
    /\ ctl.state = "DENIED" /\ ctl.pc = "loop"

(***************************************************************************)
(* Claims about enrolment (SpecUsers)                                      *)
(***************************************************************************)
\* the active users rows that carry sensor id `fingerprint_id`
ActiveWithFingerprint(fingerprint_id) ==
    {u \in DOMAIN db.users :
        db.users[u].active = 1 /\ db.users[u].fingerprint_id = fingerprint_id}

\* C40: after any sequence of register_user, update_user_fingerprint and
\* delete_user at most one active users row carries a given sensor id >= 0,
\* and a template stored on the sensor resolves to the user who enrolled it
\* or to nobody
C40_OneActiveUserPerFingerprint ==
    \A p \in Positions :
        /\ Cardinality(ActiveWithFingerprint(p)) <= 1
        /\ p \in task.templates
              => get_user_by_fingerprint(db, p) \in {NULL, task.enrolled_by[p]}

====
